---- MODULE Spec2Model ----
(***************************************************************************)
(* Models of the scripts of the repository:                                *)
(*   - tools/migration_testing/compare_responses.py: the response          *)
(*     comparator (compare_responses), its driver loop (send_requests) and *)
(*     the three passes of main (Spec, SpecCall);                          *)
(*   - tools/benchmark/dc_api_latency_test.py: the Locust benchmark, its   *)
(*     request files, test starts and users (SpecBenchmark);               *)
(*   - cloud_automation/airflow/dag.py: the runs of the DAG GcsToBTCache   *)
(*     (SpecDag);                                                          *)
(*   - cloud_automation/gcf/airflow_trigger.py: the Cloud Function         *)
(*     gcs_trigger (SpecTrigger) and make_iap_request (SpecIap).           *)
(*                                                                         *)
(* A response body is a sequence of characters.  Response.json() is        *)
(* modelled by a recursive-descent parser of a JSON subset (objects,       *)
(* arrays, strings without escapes, non-negative integers, null,           *)
(* whitespace).  A parsed value is a record [kind, n, text]: its Python    *)
(* type, its len() where the type has one, and its text without            *)
(* whitespace.  Two parsed values are equal in Python exactly when these   *)
(* records are equal, for the bodies of this model (objects hold at most   *)
(* one key, numbers are integers).                                         *)
(***************************************************************************)
EXTENDS Integers, Sequences, FiniteSets, TLC

VARIABLES
  pc,           \* position of main: "start", a pass, "done" or "raised"
  i,            \* send_requests: index of endpoint_info in endpoint_infos
  j,            \* send_requests: index of method in methods
  ENDPOINTS,    \* the module-level list (its payload dicts are mutable objects)
  ERROR_TESTS,  \* the module-level list of expected-error endpoints
  compared,     \* every call of compare_responses made so far, in order
  trace,        \* network and console events since the last pass header
  current_response, \* outcome of the request to the current domain, last call
  new_response,     \* outcome of the request to the new domain, last call
  sent,         \* requests issued by the last call of compare_responses
  json_calls,   \* domains whose response had .json() invoked, last call
  lines,        \* lines printed by the last call of compare_responses
  exc,          \* exception that left the last call: "none" or its type
  \* dc_api_latency_test.py
  files,        \* the request files as the last test start found them
  parsed_options,        \* environment.parsed_options of the last test start
  _DC_API_KEY,           \* the module-level key
  _SHARED_TEST_REQUESTS, \* the module-level request list
  test_start_exc,        \* exception that left the last test_start
  running,      \* a test run is under way
  users,        \* the benchmark users of the run, in spawning order
  rest_calls,   \* requests sent by the users since the last test start
  starts,       \* number of test starts so far
  \* dag.py
  dag_runs,     \* the runs of GcsToBTCache: conf, state of each task, copy made
  bucket,       \* objects of the completion bucket: name -> content
  \* airflow_trigger.py
  args,         \* arguments of the last call (gcs_trigger or make_iap_request)
  reads,        \* objects read from GCS by the last call
  http,         \* HTTP requests issued by the last call
  returned,     \* value the last call returned
  call_exc,     \* exception that left the last call
  handled       \* number of calls so far

comparatorVars == <<pc, i, j, ENDPOINTS, ERROR_TESTS, compared, trace,
                    current_response, new_response, sent, json_calls, lines, exc>>

benchmarkVars == <<files, parsed_options, _DC_API_KEY, _SHARED_TEST_REQUESTS,
                   test_start_exc, running, users, rest_calls, starts>>

dagVars == <<dag_runs, bucket>>

triggerVars == <<args, reads, http, returned, call_exc, handled>>

vars == <<comparatorVars, benchmarkVars, dagVars, triggerVars>>

\* The scripts are separate programs: while one is explored the others have
\* not been started.
BenchmarkNotStarted ==
  /\ files = <<>>
  /\ parsed_options = <<>>
  /\ _DC_API_KEY = ""
  /\ _SHARED_TEST_REQUESTS = <<>>
  /\ test_start_exc = ""
  /\ running = FALSE
  /\ users = <<>>
  /\ rest_calls = <<>>
  /\ starts = 0

DagNotStarted == dag_runs = <<>> /\ bucket = <<>>

TriggerNotStarted ==
  /\ args = <<>>
  /\ reads = <<>>
  /\ http = <<>>
  /\ returned = <<>>
  /\ call_exc = ""
  /\ handled = 0

----------------------------------------------------------------------------
(* Bounds of the model.                                                    *)

MaxEndpoints == 2

MaxErrorTests == 1

\* Test starts are counted up to MaxStarts.
MaxStarts == 2

\* Benchmark users of one test run.
MaxUsers == 2

\* Requests the users of one test run send.
MaxRestCalls == 4

\* Runs of the DAG GcsToBTCache.
MaxDagRuns == 2

\* Events handled by the Cloud Function.
MaxEvents == 2

\* A character budget for one body of a DIFF, below the longest body of the
\* model: the source has no budget of its own.
DisplayBudget == 10

----------------------------------------------------------------------------
(* Response.json(): a JSON parser over character sequences.                *)

Digits == {"0", "1", "2", "5"}

Whitespace == {" "}

Quote == "\""

\* Result of a failed parse.
Bad == [ok |-> FALSE, kind |-> "", n |-> 0, text |-> <<>>, next |-> 0]

Parsed(kind, n, text, next) ==
  [ok |-> TRUE, kind |-> kind, n |-> n, text |-> text, next |-> next]

RECURSIVE SkipWs(_, _)
SkipWs(s, p) ==
  IF p <= Len(s) /\ s[p] \in Whitespace THEN SkipWs(s, p + 1) ELSE p

\* Index of the first quote at or after p, or 0.
RECURSIVE ClosingQuote(_, _)
ClosingQuote(s, p) ==
  IF p > Len(s) THEN 0
  ELSE IF s[p] = Quote THEN p
  ELSE ClosingQuote(s, p + 1)

ParseString(s, p) ==
  LET q == ClosingQuote(s, p + 1)
  IN  IF q = 0 THEN Bad
      ELSE Parsed("str", q - p - 1, SubSeq(s, p, q), q + 1)

\* Index after the last digit of the run of digits starting at p.
RECURSIVE DigitsEnd(_, _)
DigitsEnd(s, p) ==
  IF p <= Len(s) /\ s[p] \in Digits THEN DigitsEnd(s, p + 1) ELSE p

\* JSON forbids leading zeros: "0" is a number on its own.
ParseNumber(s, p) ==
  LET q == IF s[p] = "0" THEN p + 1 ELSE DigitsEnd(s, p)
  IN  Parsed("int", 0, SubSeq(s, p, q - 1), q)

ParseNull(s, p) ==
  IF p + 3 <= Len(s) /\ SubSeq(s, p, p + 3) = <<"n", "u", "l", "l">>
  THEN Parsed("NoneType", 0, <<"n", "u", "l", "l">>, p + 4)
  ELSE Bad

RECURSIVE ParseValue(_, _)
RECURSIVE ParseElements(_, _, _, _)
RECURSIVE ParseMembers(_, _, _, _)

\* The elements of an array after "[" (cnt parsed so far, acc their text).
ParseElements(s, p, cnt, acc) ==
  LET v == ParseValue(s, p)
      q == SkipWs(s, v.next)
  IN  IF ~v.ok \/ q > Len(s) THEN Bad
      ELSE IF s[q] = "," THEN ParseElements(s, q + 1, cnt + 1, acc \o v.text \o <<",">>)
      ELSE IF s[q] = "]" THEN Parsed("list", cnt + 1, acc \o v.text \o <<"]">>, q + 1)
      ELSE Bad

\* The members of an object after "{" (cnt parsed so far, acc their text).
ParseMembers(s, p, cnt, acc) ==
  LET kp == SkipWs(s, p)
      k  == IF kp <= Len(s) /\ s[kp] = Quote THEN ParseString(s, kp) ELSE Bad
      c  == SkipWs(s, k.next)
      v  == ParseValue(s, c + 1)
      q  == SkipWs(s, v.next)
      m  == acc \o k.text \o <<":">> \o v.text
  IN  IF ~k.ok \/ c > Len(s) \/ s[c] # ":" THEN Bad
      ELSE IF ~v.ok \/ q > Len(s) THEN Bad
      ELSE IF s[q] = "," THEN ParseMembers(s, q + 1, cnt + 1, m \o <<",">>)
      ELSE IF s[q] = "}" THEN Parsed("dict", cnt + 1, m \o <<"}">>, q + 1)
      ELSE Bad

ParseValue(s, p0) ==
  LET p == SkipWs(s, p0)
  IN  IF p > Len(s) THEN Bad
      ELSE IF s[p] = Quote THEN ParseString(s, p)
      ELSE IF s[p] \in Digits THEN ParseNumber(s, p)
      ELSE IF s[p] = "n" THEN ParseNull(s, p)
      ELSE IF s[p] = "[" THEN
        LET q == SkipWs(s, p + 1)
        IN  IF q <= Len(s) /\ s[q] = "]"
            THEN Parsed("list", 0, <<"[", "]">>, q + 1)
            ELSE ParseElements(s, p + 1, 0, <<"[">>)
      ELSE IF s[p] = "{" THEN
        LET q == SkipWs(s, p + 1)
        IN  IF q <= Len(s) /\ s[q] = "}"
            THEN Parsed("dict", 0, <<"{", "}">>, q + 1)
            ELSE ParseMembers(s, p + 1, 0, <<"{">>)
      ELSE Bad

\* A Python value as compare_responses sees it.
Value(kind, n, text) == [kind |-> kind, n |-> n, text |-> text]

NoValue == Value("", 0, <<>>)

\* json.loads(content): the parsed value, or ok = FALSE for a
\* JSONDecodeError (nothing but whitespace may follow the value).
loads(content) ==
  LET r == ParseValue(content, 1)
  IN  IF r.ok /\ SkipWs(content, r.next) > Len(content)
      THEN [ok |-> TRUE, value |-> Value(r.kind, r.n, r.text)]
      ELSE [ok |-> FALSE, value |-> NoValue]

----------------------------------------------------------------------------
(* Python values the comparator handles.                                   *)

\* A dict is its set of <<key, value>> items; None has its own tag.
Dict(items) == [t |-> "dict", items |-> items]

None == [t |-> "None", items |-> {}]

\* d[k] = v on a dict.
SetItem(d, k, v) == Dict({it \in d.items : it[1] # k} \cup {<<k, v>>})

\* args.api_key, args.current_domain, args.new_domain (the command line).
api_key == "API_KEY"

current_domain == "current.example"

new_domain == "new.example"

\* The value of current_data / new_data after a JSONDecodeError.
NotValidJSON ==
  Value("str", 14, <<Quote, "N", "o", "t", " ", "v", "a", "l", "i", "d",
                     " ", "J", "S", "O", "N", Quote>>)

----------------------------------------------------------------------------
(* Responses the two domains may give.                                     *)

Response(status_code, content_type, content) ==
  [ok |-> TRUE, raised |-> "", status_code |-> status_code,
   content_type |-> content_type, content |-> content]

\* The request raised a requests.exceptions.RequestException (timeout,
\* connection error): there is no response.
RequestFailed ==
  [ok |-> FALSE, raised |-> "RequestException", status_code |-> 0,
   content_type |-> "", content |-> <<>>]

\* The request was never issued.
Unsent ==
  [ok |-> FALSE, raised |-> "", status_code |-> 0,
   content_type |-> "", content |-> <<>>]

Str(chars) == <<Quote>> \o chars \o <<Quote>>

\* {"version": "1.0"}
BodyV1 ==
  <<"{">> \o Str(<<"v", "e", "r", "s", "i", "o", "n">>) \o <<":", " ">>
    \o Str(<<"1", ".", "0">>) \o <<"}">>

\* {"version":"1.0"}: the same value, other bytes
BodyV1Compact ==
  <<"{">> \o Str(<<"v", "e", "r", "s", "i", "o", "n">>) \o <<":">>
    \o Str(<<"1", ".", "0">>) \o <<"}">>

\* {"version": "2.0"}
BodyV2 ==
  <<"{">> \o Str(<<"v", "e", "r", "s", "i", "o", "n">>) \o <<":", " ">>
    \o Str(<<"2", ".", "0">>) \o <<"}">>

BodyEmptyDict == <<"{", "}">>

BodyEmptyList == <<"[", "]">>

BodyNumber == <<"5">>

BodyNull == <<"n", "u", "l", "l">>

\* The JSON string "Not valid JSON"
BodySentinel == NotValidJSON.text

\* <html>: not JSON
BodyHtml == <<"<", "h", "t", "m", "l", ">">>

\* Zero bytes: not JSON
BodyNone == <<>>

Bodies ==
  {BodyV1, BodyV1Compact, BodyV2, BodyEmptyDict, BodyEmptyList, BodyNumber,
   BodyNull, BodySentinel, BodyHtml, BodyNone}

\* loads of every body of the model, computed once.
Loaded == [b \in Bodies |-> loads(b)]

\* response.json(): ok = FALSE for requests.exceptions.JSONDecodeError.
json(response) == Loaded[response.content]

StatusCodes == {200, 400, 404}

ContentTypes == {"application/json", "text/html"}

\* Every response of the model.
Responses ==
  {Response(c, t, b) : c \in StatusCodes, t \in ContentTypes, b \in Bodies}

\* The responses a whole run is explored with: one per branch of
\* compare_responses.
RunResponses ==
  {Response(200, "application/json", BodyV1),
   Response(200, "application/json", BodyNumber),
   Response(200, "text/html", BodyHtml),
   Response(404, "application/json", BodyV1)}

\* How the two requests of one call can end, given the responses R the
\* domains may give: no request is issued for an invalid method, and the
\* second is not issued when the first raised.
Outcomes(R, method) ==
  IF method \notin {"GET", "POST"} THEN {<<Unsent, Unsent>>}
  ELSE {<<RequestFailed, Unsent>>}
       \cup {<<r1, r2>> : r1 \in R, r2 \in R \cup {RequestFailed}}

----------------------------------------------------------------------------
(* compare_responses.                                                      *)

\* One HTTP request as handed to requests.get / requests.post.
Request(domain, method, endpoint, params, body, headers) ==
  [domain |-> domain, method |-> method, url |-> endpoint,
   params |-> params, json |-> body, headers |-> headers]

\* One printed line; fields a line does not show are blank.
Line(kind, method, endpoint, domain, status, flag, data) ==
  [kind |-> kind, method |-> method, endpoint |-> endpoint, domain |-> domain,
   status |-> status, flag |-> flag, data |-> data]

\* print(f"Error fetching {endpoint} ({method}): {e}")
ErrorLine(endpoint, method, e) ==
  Line("Error fetching", method, endpoint, "", 0, e, NoValue)

\* What one call of compare_responses did.
Outcome(requests, calls, printed, raised, params) ==
  [sent |-> requests, json_calls |-> calls, lines |-> printed,
   exc |-> raised, params |-> params]

\* requests_of with the API key of a POST in the query string.
requests_of_key_in_query(endpoint, use_api_key, method, params) ==
  IF method = "GET" THEN
    LET copy == IF params = None THEN Dict({}) ELSE params
        req_params == IF use_api_key THEN SetItem(copy, "key", api_key) ELSE copy
    IN  << Request(current_domain, "GET", endpoint, req_params, None, Dict({})),
           Request(new_domain, "GET", endpoint, req_params, None, Dict({})) >>
  ELSE
    LET query == IF use_api_key THEN Dict({<<"key", api_key>>}) ELSE None
    IN  << Request(current_domain, "POST", endpoint, query, params, Dict({})),
           Request(new_domain, "POST", endpoint, query, params, Dict({})) >>

\* The two requests of a call, in the order they are issued.
requests_of(endpoint, use_api_key, method, params) ==
  IF method = "GET" THEN
    LET copy == IF params = None THEN Dict({}) ELSE params
        req_params == IF use_api_key THEN SetItem(copy, "key", api_key) ELSE copy
    IN  << Request(current_domain, "GET", endpoint, req_params, None, Dict({})),
           Request(new_domain, "GET", endpoint, req_params, None, Dict({})) >>
  ELSE
    LET headers == IF use_api_key THEN Dict({<<"x-api-key", api_key>>}) ELSE Dict({})
    IN  << Request(current_domain, "POST", endpoint, None, params, headers),
           Request(new_domain, "POST", endpoint, None, params, headers) >>

\* parse_bodies classifying by the Content-Type header: a body that is not
\* declared application/json is kept as raw bytes and never parsed.
parse_bodies_by_content_type(r1, r2) ==
  LET data(r) == IF r.content_type # "application/json"
                 THEN Value("bytes", Len(r.content), r.content)
                 ELSE IF json(r).ok THEN json(r).value ELSE NotValidJSON
      call(r, d) == IF r.content_type # "application/json" THEN <<>> ELSE <<d>>
  IN  [current_data |-> data(r1), new_data |-> data(r2),
       calls |-> call(r1, current_domain) \o call(r2, new_domain)]

\* parse_bodies keeping the raw body of a response that is not JSON in
\* place of the sentinel.
parse_bodies_raw_on_error(r1, r2) ==
  LET data(r) == IF json(r).ok THEN json(r).value
                 ELSE Value("str", Len(r.content), r.content)
  IN  [current_data |-> data(r1), new_data |-> data(r2),
       calls |-> <<current_domain, new_domain>>]

\* Lines 428-435: both bodies go through .json(); a JSONDecodeError leaves
\* the sentinel.  calls lists the responses whose .json() was invoked.
parse_bodies(r1, r2) ==
  [current_data |-> IF json(r1).ok THEN json(r1).value ELSE NotValidJSON,
   new_data     |-> IF json(r2).ok THEN json(r2).value ELSE NotValidJSON,
   calls        |-> <<current_domain, new_domain>>]

\* diff_lines with the status code of the current domain on both lines.
diff_lines_one_status(endpoint, method, r1, r2, current_data, new_data) ==
  << Line("DIFF", method, endpoint, "", 0, "", NoValue),
     Line("Current", "", "", current_domain, r1.status_code, "", current_data),
     Line("New", "", "", new_domain, r1.status_code, "", new_data) >>

\* Lines 438-442: the three prints of a DIFF.
diff_lines(endpoint, method, r1, r2, current_data, new_data) ==
  << Line("DIFF", method, endpoint, "", 0, "", NoValue),
     Line("Current", "", "", current_domain, r1.status_code, "", current_data),
     Line("New", "", "", new_domain, r2.status_code, "", new_data) >>

\* same_lines with the warning starting above 400 instead of at 400.
same_lines_above_400(endpoint, method, reqs, params, r1, calls) ==
  LET code == r1.status_code
      again == calls \o <<current_domain>>
      same(flag) == <<Line("SAME", method, endpoint, "", code, flag, NoValue)>>
  IN  IF code > 400 THEN
        Outcome(reqs, calls, same("WARNING"), "none", params)
      ELSE IF ~json(r1).ok THEN
        Outcome(reqs, again, <<ErrorLine(endpoint, method, "JSONDecodeError")>>,
                "none", params)
      ELSE IF json(r1).value.kind \notin {"dict", "list", "str"} THEN
        Outcome(reqs, again, <<>>, "TypeError", params)
      ELSE IF json(r1).value.n = 0 THEN
        Outcome(reqs, again, same("WARNING EMPTY"), "none", params)
      ELSE
        Outcome(reqs, again, same(""), "none", params)

\* Lines 444-453: the print of a SAME, or the exception that replaces it.
\* len(current_response.json()) parses the body again, outside the inner
\* try: a JSONDecodeError there is a RequestException and reaches the
\* outer handler (line 458); the TypeError of len() of a number or of None
\* is no RequestException and leaves the call.
same_lines(endpoint, method, reqs, params, r1, calls) ==
  LET code == r1.status_code
      again == calls \o <<current_domain>>
      same(flag) == <<Line("SAME", method, endpoint, "", code, flag, NoValue)>>
  IN  IF code >= 400 THEN
        Outcome(reqs, calls, same("WARNING"), "none", params)
      ELSE IF ~json(r1).ok THEN
        Outcome(reqs, again, <<ErrorLine(endpoint, method, "JSONDecodeError")>>,
                "none", params)
      ELSE IF json(r1).value.kind \notin {"dict", "list", "str"} THEN
        Outcome(reqs, again, <<>>, "TypeError", params)
      ELSE IF json(r1).value.n = 0 THEN
        Outcome(reqs, again, same("WARNING EMPTY"), "none", params)
      ELSE
        Outcome(reqs, again, same(""), "none", params)

\* Lines 428-456: both responses are in; r1 is current_response, r2 is
\* new_response.
report(endpoint, method, reqs, params, r1, r2) ==
  LET parsed == parse_bodies(r1, r2)
  IN  IF parsed.current_data # parsed.new_data THEN
        Outcome(reqs, parsed.calls,
                diff_lines(endpoint, method, r1, r2,
                           parsed.current_data, parsed.new_data),
                "none", params)
      ELSE same_lines(endpoint, method, reqs, params, r1, parsed.calls)

\* compare_responses without the handler of line 458: a RequestException
\* leaves the call.
compare_responses_uncaught(endpoint, use_api_key, method, params, r1, r2) ==
  LET reqs == requests_of(endpoint, use_api_key, method, params)
  IN  IF method \notin {"GET", "POST"} THEN
        Outcome(<<>>, <<>>, <<>>, "ValueError", params)
      ELSE IF ~r1.ok THEN
        Outcome(<<reqs[1]>>, <<>>, <<>>, "RequestException", params)
      ELSE IF ~r2.ok THEN
        Outcome(reqs, <<>>, <<>>, "RequestException", params)
      ELSE report(endpoint, method, reqs, params, r1, r2)

\* compare_responses with the ValueError of line 426 handled like a
\* transport error: an error line is printed and the call returns.
compare_responses_absorbed(endpoint, use_api_key, method, params, r1, r2) ==
  LET reqs == requests_of(endpoint, use_api_key, method, params)
  IN  IF method \notin {"GET", "POST"} THEN
        Outcome(<<>>, <<>>, <<ErrorLine(endpoint, method, "ValueError")>>,
                "none", params)
      ELSE IF ~r1.ok THEN
        Outcome(<<reqs[1]>>, <<>>,
                <<ErrorLine(endpoint, method, "RequestException")>>, "none", params)
      ELSE IF ~r2.ok THEN
        Outcome(reqs, <<>>,
                <<ErrorLine(endpoint, method, "RequestException")>>, "none", params)
      ELSE report(endpoint, method, reqs, params, r1, r2)

\* compare_responses with req_params = params in place of the deepcopy of
\* line 412: the key of a GET is set in the dict of the descriptor.
compare_responses_shared_params(endpoint, use_api_key, method, params, r1, r2) ==
  LET shared == IF method = "GET" /\ use_api_key /\ params # None
                THEN SetItem(params, "key", api_key) ELSE params
      reqs == requests_of(endpoint, use_api_key, method, shared)
  IN  IF method \notin {"GET", "POST"} THEN
        Outcome(<<>>, <<>>, <<>>, "ValueError", shared)
      ELSE IF ~r1.ok THEN
        Outcome(<<reqs[1]>>, <<>>,
                <<ErrorLine(endpoint, method, "RequestException")>>, "none", shared)
      ELSE IF ~r2.ok THEN
        Outcome(reqs, <<>>,
                <<ErrorLine(endpoint, method, "RequestException")>>, "none", shared)
      ELSE report(endpoint, method, reqs, shared, r1, r2)

\* compare_responses(endpoint, use_api_key, method, params) when the request
\* to the current domain ends as r1 and the one to the new domain as r2
\* (ok = FALSE: the request raised a RequestException).
compare_responses(endpoint, use_api_key, method, params, r1, r2) ==
  LET reqs == requests_of(endpoint, use_api_key, method, params)
  IN  IF method \notin {"GET", "POST"} THEN
        Outcome(<<>>, <<>>, <<>>, "ValueError", params)
      ELSE IF ~r1.ok THEN
        Outcome(<<reqs[1]>>, <<>>,
                <<ErrorLine(endpoint, method, "RequestException")>>, "none", params)
      ELSE IF ~r2.ok THEN
        Outcome(reqs, <<>>,
                <<ErrorLine(endpoint, method, "RequestException")>>, "none", params)
      ELSE report(endpoint, method, reqs, params, r1, r2)

----------------------------------------------------------------------------
(* Endpoint descriptors.                                                   *)

\* A tuple (endpoint, methods, params) of ENDPOINTS.
Info(endpoint, methods, params) ==
  [tuple |-> TRUE, endpoint |-> endpoint, methods |-> methods, params |-> params]

\* A bare string in the list.
BareInfo(endpoint) ==
  [tuple |-> FALSE, endpoint |-> endpoint, methods |-> <<>>, params |-> None]

\* Entries of ENDPOINTS, one of each shape.
SrcEndpoints ==
  << Info("/internal/bio", <<"GET", "POST">>, Dict({<<"dcid", "bio/FGFR1_HUMAN">>})),
     Info("/v1/triples/out/Count_Person", <<"GET">>, Dict({})),
     Info("/v1/variable/ancestors", <<"POST">>,
          Dict({<<"node", "WithdrawalRate_Water_Irrigation">>})) >>

\* A list as an edit of NEW_ENDPOINTS or ENDPOINTS can make it: a bare
\* string, and a method that is neither GET nor POST.
EditedEndpoints ==
  << BareInfo("/version"),
     Info("/v2/node", <<"GET", "PUT">>, Dict({<<"nodes", "geoId/06">>})),
     Info("/v1/triples/out/Count_Person", <<"GET">>, Dict({})) >>

\* The first entries of ERROR_TESTS.
SrcErrorTests ==
  << Info("/stat/series?place=&stat_var=Count_Person", <<"GET", "POST">>, Dict({})),
     Info("/nonexistent", <<"GET", "POST">>, Dict({})) >>

Min(a, b) == IF a <= b THEN a ELSE b

Prefixes(s, max) == {SubSeq(s, 1, n) : n \in 1..Min(max, Len(s))}

USE_NEW_ENDPOINTS_ONLY == FALSE

NEW_ENDPOINTS == <<>>

----------------------------------------------------------------------------
(* send_requests and main.                                                 *)

Passes == {"with_key", "without_key", "error_tests"}

\* to_use = NEW_ENDPOINTS if USE_NEW_ENDPOINTS_ONLY else ENDPOINTS
to_use == IF USE_NEW_ENDPOINTS_ONLY THEN NEW_ENDPOINTS ELSE ENDPOINTS

\* The arguments of the running call send_requests(endpoint_infos, use_api_key).
endpoint_infos == IF pc = "error_tests" THEN ERROR_TESTS ELSE to_use

use_api_key == pc # "without_key"

\* endpoint, methods, params = endpoint_info, or the defaults of a bare string.
methods_of(endpoint_info) ==
  IF endpoint_info.tuple THEN endpoint_info.methods ELSE <<"GET">>

params_of(endpoint_info) ==
  IF endpoint_info.tuple THEN endpoint_info.params ELSE None

\* next_position leaving the loop over the methods after the first one.
next_position_first_method_only(infos, ii, jj) == <<ii + 1, 1>>

\* The loop position after the call for method j of endpoint_infos[i].
next_position(infos, ii, jj) ==
  IF jj < Len(methods_of(infos[ii])) THEN <<ii, jj + 1>> ELSE <<ii + 1, 1>>

\* print(f"{bcolors.BOLD}...{bcolors.ENDC}") of main, before each pass.
Header(pass) == [ev |-> "header", i |-> 0, method |-> "", what |-> pass]

\* The requests and the prints of one call, as they happen in time.
events_of(ii, method, o) ==
  [k \in 1..Len(o.sent) |->
     [ev |-> "request", i |-> ii, method |-> method, what |-> o.sent[k].domain]]
  \o [k \in 1..Len(o.lines) |->
     [ev |-> "print", i |-> ii, method |-> method, what |-> o.lines[k].kind]]

\* The list a pass iterates, with the params object of entry ii as the call
\* left it (the dict of the tuple is passed by reference).
WithParams(infos, ii, params) ==
  IF infos[ii].tuple THEN [infos EXCEPT ![ii].params = params] ELSE infos

Init ==
  /\ pc = "start"
  /\ i = 1
  /\ j = 1
  /\ ENDPOINTS \in Prefixes(SrcEndpoints, MaxEndpoints)
                     \cup Prefixes(EditedEndpoints, MaxEndpoints)
  /\ ERROR_TESTS \in Prefixes(SrcErrorTests, MaxErrorTests)
  /\ compared = <<>>
  /\ trace = <<>>
  /\ current_response = Unsent
  /\ new_response = Unsent
  /\ sent = <<>>
  /\ json_calls = <<>>
  /\ lines = <<>>
  /\ exc = "none"
  /\ BenchmarkNotStarted /\ DagNotStarted /\ TriggerNotStarted

\* main up to its first call of send_requests.
MainStart ==
  /\ pc = "start"
  /\ pc' = "with_key"
  /\ i' = 1
  /\ j' = 1
  /\ trace' = <<Header("with_key")>>
  /\ UNCHANGED <<ENDPOINTS, ERROR_TESTS, compared, current_response,
                 new_response, sent, json_calls, lines, exc>>
  /\ UNCHANGED <<benchmarkVars, dagVars, triggerVars>>

\* One iteration of the inner loop of send_requests: the call
\* compare_responses(endpoint, use_api_key, method, params), the domains
\* answering with responses of R.  An exception leaving the call leaves
\* send_requests and main as well.
SendRequestsStep(R) ==
  /\ pc \in Passes
  /\ UNCHANGED <<benchmarkVars, dagVars, triggerVars>>
  /\ i <= Len(endpoint_infos)
  /\ LET endpoint_info == endpoint_infos[i]
         endpoint == endpoint_info.endpoint
         method   == methods_of(endpoint_info)[j]
         params   == params_of(endpoint_info)
     IN  \E rr \in Outcomes(R, method) :
         \E o \in {compare_responses(endpoint, use_api_key, method, params,
                                     rr[1], rr[2])} :
         \E pos \in {next_position(endpoint_infos, i, j)} :
               /\ current_response' = rr[1]
               /\ new_response' = rr[2]
               /\ sent' = o.sent
               /\ json_calls' = o.json_calls
               /\ lines' = o.lines
               /\ exc' = o.exc
               /\ trace' = trace \o events_of(i, method, o)
               /\ compared' = Append(compared,
                    [pass |-> pc, i |-> i, j |-> j, endpoint |-> endpoint,
                     use_api_key |-> use_api_key, method |-> method,
                     params |-> params])
               /\ IF pc = "error_tests"
                  THEN /\ ERROR_TESTS' = WithParams(ERROR_TESTS, i, o.params)
                       /\ UNCHANGED ENDPOINTS
                  ELSE /\ ENDPOINTS' = WithParams(ENDPOINTS, i, o.params)
                       /\ UNCHANGED ERROR_TESTS
               /\ IF o.exc = "none"
                  THEN /\ pc' = pc
                       /\ i' = pos[1]
                       /\ j' = pos[2]
                  ELSE /\ pc' = "raised"
                       /\ UNCHANGED <<i, j>>

\* send_requests returns; main prints the next header and starts the next
\* pass, or returns.
SendRequestsReturn ==
  /\ pc \in Passes
  /\ i > Len(endpoint_infos)
  /\ pc' = CASE pc = "with_key" -> "without_key"
             [] pc = "without_key" ->
                  IF USE_NEW_ENDPOINTS_ONLY THEN "done" ELSE "error_tests"
             [] pc = "error_tests" -> "done"
  /\ i' = 1
  /\ j' = 1
  /\ trace' = IF pc' = "done" THEN trace ELSE <<Header(pc')>>
  /\ UNCHANGED <<ENDPOINTS, ERROR_TESTS, compared, current_response,
                 new_response, sent, json_calls, lines, exc>>
  /\ UNCHANGED <<benchmarkVars, dagVars, triggerVars>>

\* A run of main.
RunStep == SendRequestsStep(RunResponses)

Next == MainStart \/ RunStep \/ SendRequestsReturn

Spec == Init /\ [][Next]_vars

----------------------------------------------------------------------------
(* One call of compare_responses, over every response of the model.        *)

\* The calls explored: each method, with and without params, a bare string.
CallInfos ==
  {Info("/version", <<m>>, p) :
     m \in {"GET", "POST", "PUT"},
     p \in {Dict({}), Dict({<<"nodes", "geoId/06">>})}}
  \cup {BareInfo("/version")}

\* The first call of a pass of send_requests.
InitCall ==
  /\ pc \in {"with_key", "without_key"}
  /\ i = 1
  /\ j = 1
  /\ ENDPOINTS \in {<<d>> : d \in CallInfos}
  /\ ERROR_TESTS = SubSeq(SrcErrorTests, 1, 1)
  /\ compared = <<>>
  /\ trace = <<Header(pc)>>
  /\ current_response = Unsent
  /\ new_response = Unsent
  /\ sent = <<>>
  /\ json_calls = <<>>
  /\ lines = <<>>
  /\ exc = "none"
  /\ BenchmarkNotStarted /\ DagNotStarted /\ TriggerNotStarted

CallStep == compared = <<>> /\ SendRequestsStep(Responses)

SpecCall == InitCall /\ [][CallStep]_vars

----------------------------------------------------------------------------
(* The last call of compare_responses.                                     *)

Called == compared # <<>>

LastCall == compared[Len(compared)]

\* Both domains answered the last call.
BothAnswered == Called /\ current_response.ok /\ new_response.ok

\* The body as the comparison sees it: the parsed value, or the sentinel.
DataOf(response) ==
  IF loads(response.content).ok THEN loads(response.content).value
  ELSE NotValidJSON

KindsPrinted == {lines[k].kind : k \in DOMAIN lines}

----------------------------------------------------------------------------
(* C1: when both domains answer a GET or POST comparison with the same     *)
(* status code and the same body, exactly one line is printed, the line    *)
(* 'SAME <status> <method> <endpoint>', and no exception leaves the call,  *)
(* whatever the body is (not JSON on both sides and JSON scalars too).     *)
C1_IdenticalResponsesAreSame ==
  ( /\ BothAnswered
    /\ LastCall.method \in {"GET", "POST"}
    /\ current_response.status_code = new_response.status_code
    /\ current_response.content = new_response.content )
  => /\ exc = "none"
     /\ Len(lines) = 1
     /\ lines[1].kind = "SAME"
     /\ lines[1].status = current_response.status_code
     /\ lines[1].method = LastCall.method
     /\ lines[1].endpoint = LastCall.endpoint

(* C2: when the two bodies of a comparison differ as parsed (the sentinel  *)
(* standing for a body that is not JSON), the verdict is DIFF: a DIFF line *)
(* naming the method and the endpoint, then the current domain's status    *)
(* code next to the current body, then the new domain's status code next   *)
(* to the new body.                                                        *)
C2_DifferentBodiesAreDiff ==
  (BothAnswered /\ DataOf(current_response) # DataOf(new_response))
  => /\ exc = "none"
     /\ Len(lines) = 3
     /\ lines[1].kind = "DIFF"
     /\ lines[1].method = LastCall.method
     /\ lines[1].endpoint = LastCall.endpoint
     /\ lines[2].kind = "Current"
     /\ lines[2].domain = current_domain
     /\ lines[2].status = current_response.status_code
     /\ lines[2].data = DataOf(current_response)
     /\ lines[3].kind = "New"
     /\ lines[3].domain = new_domain
     /\ lines[3].status = new_response.status_code
     /\ lines[3].data = DataOf(new_response)

\* A DIFF between a 200 and a 404 whose bodies differ has been printed.
C2_Witness ==
  /\ BothAnswered
  /\ current_response.status_code = 200
  /\ new_response.status_code = 404
  /\ current_response.content = BodyV1
  /\ new_response.content = BodyV2
  /\ Len(lines) = 3
  /\ lines[1].kind = "DIFF"

(* C3: a SAME line is printed only when the two responses share their      *)
(* status code.                                                            *)
C3_SameSharesStatus ==
  (Called /\ "SAME" \in KindsPrinted)
  => current_response.status_code = new_response.status_code

----------------------------------------------------------------------------
(* What a run has done.                                                     *)

Lists == {"ENDPOINTS", "ERROR_TESTS"}

ListNamed(name) == IF name = "ENDPOINTS" THEN ENDPOINTS ELSE ERROR_TESTS

\* The list a pass iterates.
ListOf(pass) == IF pass = "error_tests" THEN "ERROR_TESTS" ELSE "ENDPOINTS"

\* The (endpoint, method) pairs a list declares, by position.
PairsOf(infos) ==
  UNION {{<<k, m>> : m \in 1..Len(methods_of(infos[k]))} : k \in DOMAIN infos}

\* Every declared method is GET or POST.
AllMethodsValid ==
  \A name \in Lists : \A p \in PairsOf(ListNamed(name)) :
    methods_of(ListNamed(name)[p[1]])[p[2]] \in {"GET", "POST"}

\* The number of calls of compare_responses for pair p of a list, with or
\* without the API key.
Attempts(name, p, key) ==
  Cardinality({n \in DOMAIN compared :
                 /\ ListOf(compared[n].pass) = name
                 /\ <<compared[n].i, compared[n].j>> = p
                 /\ compared[n].use_api_key = key})

\* The transport failed in the last call.
TransportFailed(r1, r2) ==
  r1.raised = "RequestException" \/ r2.raised = "RequestException"

(* C4: a transport failure of either request of a comparison is caught in  *)
(* compare_responses: the call prints exactly one line, the error line     *)
(* naming the endpoint and the method, no exception leaves it, and         *)
(* send_requests moves to the next method, or to the next endpoint after   *)
(* the last method.                                                        *)
C4_TransportErrorIsCaught ==
  [][ (compared' # compared /\ TransportFailed(current_response', new_response'))
      => /\ exc' = "none"
         /\ Len(lines') = 1
         /\ lines'[1].kind = "Error fetching"
         /\ lines'[1].endpoint = endpoint_infos[i].endpoint
         /\ lines'[1].method = methods_of(endpoint_infos[i])[j]
         /\ pc' = pc
         /\ \/ j < Len(methods_of(endpoint_infos[i])) /\ i' = i /\ j' = j + 1
            \/ j = Len(methods_of(endpoint_infos[i])) /\ i' = i + 1 /\ j' = 1
    ]_vars

\* The request to the new domain failed in a comparison that was not the
\* first of its pass, after an earlier error line, and the pass goes on.
C4_Witness ==
  /\ pc \in Passes
  /\ Len(compared) >= 2
  /\ new_response.raised = "RequestException"
  /\ current_response.ok
  /\ Len(lines) = 1
  /\ lines[1].kind = "Error fetching"
  /\ \E a \in DOMAIN trace :
       /\ trace[a].ev = "print"
       /\ trace[a].what = "Error fetching"
       /\ <<trace[a].i, trace[a].method>> # <<LastCall.i, LastCall.method>>
  /\ i <= Len(endpoint_infos)

(* C5: a run of main over lists whose methods are all GET or POST never    *)
(* ends in an exception, and when main has returned every (endpoint,       *)
(* method) pair of all three passes has been attempted.                    *)
C5_RunCompletes ==
  AllMethodsValid
  => /\ pc # "raised"
     /\ pc = "done" =>
          /\ \A p \in PairsOf(to_use) :
               Attempts("ENDPOINTS", p, TRUE) >= 1 /\ Attempts("ENDPOINTS", p, FALSE) >= 1
          /\ \A p \in PairsOf(ERROR_TESTS) : Attempts("ERROR_TESTS", p, TRUE) >= 1

(* C6: when at least one of the two bodies is not valid JSON, the          *)
(* comparison ends in a SAME or a DIFF verdict: no exception leaves the    *)
(* call and no error line is printed.                                      *)
C6_InvalidJsonEndsInVerdict ==
  ( /\ BothAnswered
    /\ ~loads(current_response.content).ok \/ ~loads(new_response.content).ok )
  => /\ exc = "none"
     /\ lines # <<>>
     /\ lines[1].kind \in {"SAME", "DIFF"}
     /\ "Error fetching" \notin KindsPrinted

\* The length of the raw body, as a value a line can show.
RawBytes(response) == Value("bytes", Len(response.content), response.content)

\* The response the last call got from a domain.
ResponseOf(domain) ==
  IF domain = current_domain THEN current_response ELSE new_response

JsonCalled == {json_calls[k] : k \in DOMAIN json_calls}

C8_EveryPairOncePerPass ==
  (AllMethodsValid /\ ~USE_NEW_ENDPOINTS_ONLY /\ pc \in {"done", "raised"})
  => /\ \A p \in PairsOf(ENDPOINTS) :
          Attempts("ENDPOINTS", p, TRUE) = 1 /\ Attempts("ENDPOINTS", p, FALSE) = 1
     /\ \A p \in PairsOf(ERROR_TESTS) :
          Attempts("ERROR_TESTS", p, TRUE) = 1 /\ Attempts("ERROR_TESTS", p, FALSE) = 0

\* The list the pass of the current event log iterates.
PassInfos == IF trace[1].what = "error_tests" THEN ERROR_TESTS ELSE to_use

\* The position in the list of the pair an event belongs to.
PairOfEvent(e) ==
  <<e.i, CHOOSE m \in 1..Len(methods_of(PassInfos[e.i])) :
           methods_of(PassInfos[e.i])[m] = e.method>>

Before(p, q) == p[1] < q[1] \/ (p[1] = q[1] /\ p[2] < q[2])

(* C9: in a pass of send_requests the events are in input order: no event *)
(* (request or printed line) of a pair comes after an event of a later     *)
(* pair of the list, and when a request of a pair is issued a line has     *)
(* been printed for every pair before it.                                  *)
C9_OutputInInputOrder ==
  trace # <<>> =>
    /\ \A a, b \in 2..Len(trace) :
         a < b => ~Before(PairOfEvent(trace[b]), PairOfEvent(trace[a]))
    /\ \A b \in 2..Len(trace) :
         trace[b].ev = "request" =>
           \A p \in PairsOf(PassInfos) :
             Before(p, PairOfEvent(trace[b])) =>
               \E a \in 2..(b - 1) :
                 trace[a].ev = "print" /\ PairOfEvent(trace[a]) = p

\* Lines of both methods of the first endpoint and of the second endpoint
\* have been printed in one pass.
C9_Witness ==
  /\ trace # <<>>
  /\ \E a, b, c \in 2..Len(trace) :
       /\ a < b /\ b < c
       /\ trace[a].ev = "print" /\ trace[b].ev = "print" /\ trace[c].ev = "print"
       /\ PairOfEvent(trace[a]) = <<1, 1>>
       /\ PairOfEvent(trace[b]) = <<1, 2>>
       /\ PairOfEvent(trace[c]) = <<2, 1>>

\* The payload of a call as a set of items, and the item of the API key.
PayloadItems(params) ==
  IF params = None THEN {} ELSE {it \in params.items : it[1] # "key"}

KeyItem(name, attached) == IF attached THEN {<<name, api_key>>} ELSE {}

(* C10: the method fixes where the payload and the API key go: both        *)
(* requests of a GET comparison carry the payload as query parameters,     *)
(* with the API key as the parameter 'key' when it is attached, and no     *)
(* JSON body and no header; both requests of a POST comparison carry the   *)
(* payload as JSON body, no query parameters, and the API key as the       *)
(* header 'x-api-key' when it is attached.                                 *)
C10_PayloadPlacement ==
  (Called /\ LastCall.method \in {"GET", "POST"})
  => /\ sent # <<>>
     /\ \A k \in DOMAIN sent :
          /\ sent[k].method = LastCall.method
          /\ sent[k].url = LastCall.endpoint
          /\ IF LastCall.method = "GET"
             THEN /\ sent[k].params =
                       Dict(PayloadItems(LastCall.params)
                              \cup KeyItem("key", LastCall.use_api_key))
                  /\ sent[k].json = None
                  /\ sent[k].headers = Dict({})
             ELSE /\ sent[k].json = LastCall.params
                  /\ sent[k].params = None
                  /\ sent[k].headers = Dict(KeyItem("x-api-key", LastCall.use_api_key))

\* A POST with a payload and the API key has gone to both domains.
C10_Witness ==
  /\ Called
  /\ LastCall.method = "POST"
  /\ LastCall.use_api_key
  /\ LastCall.params # Dict({})
  /\ Len(sent) = 2
  /\ sent[2].headers = Dict({<<"x-api-key", api_key>>})
  /\ sent[2].json = LastCall.params

----------------------------------------------------------------------------
(* C11: each call of compare_responses with method GET or POST issues      *)
(* exactly one request to the current domain and exactly one to the new    *)
(* domain, in that order, with the same path, method, payload and          *)
(* credentials, and no request is repeated, whatever the outcome.          *)
C11_OneRequestToEachDomain ==
  (Called /\ LastCall.method \in {"GET", "POST"})
  => /\ Len(sent) = 2
     /\ sent[1].domain = current_domain
     /\ sent[2].domain = new_domain
     /\ sent[1].url = LastCall.endpoint
     /\ sent[1].method = LastCall.method
     /\ [sent[1] EXCEPT !.domain = new_domain] = sent[2]

----------------------------------------------------------------------------
\* The last call was made with a method that is neither GET nor POST.
InvalidMethodCalled == Called /\ LastCall.method \notin {"GET", "POST"}

(* C12: a method other than GET or POST is fatal: the call of              *)
(* compare_responses made with it sends no request and prints nothing, a   *)
(* ValueError leaves the call (the handler of transport errors does not    *)
(* absorb it) and the run, and no later pair of the run is compared.       *)
C12_InvalidMethodIsFatal ==
  [][ /\ InvalidMethodCalled' /\ compared' # compared
         => /\ sent' = <<>>
            /\ lines' = <<>>
            /\ exc' = "ValueError"
            /\ pc' = "raised"
            /\ trace' = trace
      /\ InvalidMethodCalled
         => /\ compared' = compared
            /\ pc' = "raised" ]_vars

\* A run was stopped by a PUT in its first pass, after another pair had
\* been compared and with the other passes still to come.
C12_Witness ==
  /\ InvalidMethodCalled
  /\ LastCall.method = "PUT"
  /\ LastCall.pass = "with_key"
  /\ Len(compared) > 1
  /\ pc = "raised"
  /\ exc = "ValueError"

----------------------------------------------------------------------------
\* The body is JSON of length zero: {}, [] or "".
ZeroLengthBody(response) ==
  response.content \in {BodyEmptyDict, BodyEmptyList, Str(<<>>)}

\* The SAME lines of the last call.
SameLines == {k \in DOMAIN lines : lines[k].kind = "SAME"}

(* C15: a SAME line shows the status code of the current domain, in        *)
(* warning colour when the code is >= 400, in warning colour with the word *)
(* EMPTY when the code is < 400 and the JSON body has length zero, and     *)
(* unflagged when the code is < 400 and the body is not empty.             *)
C15_SameLineWarning ==
  \A k \in SameLines :
    /\ lines[k].status = current_response.status_code
    /\ lines[k].flag =
         IF current_response.status_code >= 400 THEN "WARNING"
         ELSE IF ZeroLengthBody(current_response) THEN "WARNING EMPTY"
         ELSE ""

\* Both domains answered 200 with an empty JSON container and the SAME
\* line carries the word EMPTY.
C15_Witness ==
  /\ BothAnswered
  /\ current_response.status_code = 200
  /\ ZeroLengthBody(current_response)
  /\ \E k \in SameLines : lines[k].flag = "WARNING EMPTY"

----------------------------------------------------------------------------
\* The lines of the last call that show a body of a DIFF.
BodyLines == {k \in DOMAIN lines : lines[k].kind \in {"Current", "New"}}

(* C16: when a DIFF is reported, each of the two bodies is shown within a  *)
(* fixed character budget: no more characters of a rendering are printed   *)
(* than the budget allows, a longer rendering being cut there.             *)
C16_DiffBodiesWithinBudget ==
  \A k \in BodyLines : Len(lines[k].data.text) <= DisplayBudget

----------------------------------------------------------------------------
(* dc_api_latency_test.py: request files.                                  *)

\* One entry of a request file: a JSON object.  has is the set of its keys;
\* the value of a key it does not have is blank.
Entry(test_name, path, api_versions, has) ==
  [has |-> has, test_name |-> test_name, path |-> path,
   api_versions |-> api_versions, json_payload |-> <<"payload of", test_name>>]

Required == {"test_name", "path", "json_payload"}

NodeEntry == Entry("node", "/node", <<>>, Required)

ObservationEntry ==
  Entry("observation", "/observation", <<"v2">>, Required \cup {"api_versions"})

SearchEntry ==
  Entry("search", "/node/search", <<"v3">>, Required \cup {"api_versions"})

ResolveEntry == Entry("resolve", "/resolve", <<>>, Required \cup {"api_versions"})

NoPayloadEntry == Entry("sparql", "/sparql", <<>>, {"test_name", "path"})

NoPathEntry == Entry("no_path", "", <<>>, {"test_name", "json_payload"})

NoNameEntry == Entry("", "/node", <<>>, {"path", "json_payload"})

\* A file of the file system: absent, not JSON, or a JSON array of entries.
File(exists, decodable, data) ==
  [exists |-> exists, decodable |-> decodable, data |-> data]

FileContents ==
  {File(FALSE, FALSE, <<>>),
   File(TRUE, FALSE, <<>>),
   File(TRUE, TRUE, <<NodeEntry, ObservationEntry>>),
   File(TRUE, TRUE, <<SearchEntry, ResolveEntry>>),
   File(TRUE, TRUE, <<NoPayloadEntry>>),
   File(TRUE, TRUE, <<NodeEntry, NoPathEntry>>),
   File(TRUE, TRUE, <<NoNameEntry>>)}

\* File names are strings; the file system knows two of them.
Paths == {<<"a">>, <<"b">>}

FileSystems == [Paths -> FileContents]

\* Values of --request_json_files: "a", "b,a", "a,b", "a," and "".
RequestJsonFiles ==
  {<<"a">>, <<"b", ",", "a">>, <<"a", ",", "b">>, <<"a", ",">>, <<>>}

\* str.split(","), applied to the rest s of the string: cur is the piece
\* being read, acc the pieces before it.
RECURSIVE split(_, _, _)
split(s, cur, acc) ==
  IF s = <<>> THEN Append(acc, cur)
  ELSE IF Head(s) = "," THEN split(Tail(s), <<>>, Append(acc, cur))
  ELSE split(Tail(s), Append(cur, Head(s)), acc)

\* An exception: its type, the field names and the file paths its message
\* holds, and the file paths of the notes added to it.
Exception(type, fields, message, notes) ==
  [type |-> type, fields |-> fields, message |-> message, notes |-> notes]

NoException == Exception("", {}, {}, {})

----------------------------------------------------------------------------
(* dc_api_latency_test.py: load_test_requests and test_start.              *)

\* What a call that may raise gives back.
Return(requests) == [returned |-> TRUE, requests |-> requests, exc |-> NoException]

Raise(e) == [returned |-> FALSE, requests |-> <<>>, exc |-> e]

\* load_files without the check of lines 33-37: entries are taken as they
\* are.
RECURSIVE load_files_unvalidated(_, _, _)
load_files_unvalidated(file_paths, requests, fs) ==
  IF file_paths = <<>> THEN Return(requests)
  ELSE LET file_path == Head(file_paths)
       IN  IF file_path \notin DOMAIN fs THEN
             Raise(Exception("FileNotFoundError", {}, {file_path}, {file_path}))
           ELSE IF ~fs[file_path].exists THEN
             Raise(Exception("FileNotFoundError", {}, {file_path}, {file_path}))
           ELSE IF ~fs[file_path].decodable THEN
             Raise(Exception("JSONDecodeError", {}, {}, {file_path}))
           ELSE load_files_unvalidated(Tail(file_paths),
                                       requests \o fs[file_path].data, fs)

\* Lines 28-45: the loop over file_paths, requests being the list so far.
\* open() raises FileNotFoundError (its message holds the file name) for a
\* name the file system does not have; the ValueError of line 35 passes
\* both except clauses untouched.
RECURSIVE load_files(_, _, _)
load_files(file_paths, requests, fs) ==
  IF file_paths = <<>> THEN Return(requests)
  ELSE LET file_path == Head(file_paths)
       IN  IF file_path \notin DOMAIN fs THEN
             Raise(Exception("FileNotFoundError", {}, {file_path}, {file_path}))
           ELSE IF ~fs[file_path].exists THEN
             Raise(Exception("FileNotFoundError", {}, {file_path}, {file_path}))
           ELSE IF ~fs[file_path].decodable THEN
             Raise(Exception("JSONDecodeError", {}, {}, {file_path}))
           ELSE IF \E k \in DOMAIN fs[file_path].data :
                     {"test_name", "path"} \ fs[file_path].data[k].has # {} THEN
             Raise(Exception("ValueError", {"test_name", "path"}, {}, {}))
           ELSE load_files(Tail(file_paths), requests \o fs[file_path].data, fs)

\* load_test_requests(requests_json_files) on the file system fs.
load_test_requests(requests_json_files, fs) ==
  IF requests_json_files = <<>>
  THEN Raise(Exception("AssertionError", {}, {}, {}))
  ELSE load_files(split(requests_json_files, <<>>, <<>>), <<>>, fs)

\* test_start without the assignment of line 108: after a failed load the
\* list is the one of the test run before.
test_start_keeps_requests(shared, options, fs) ==
  LET loaded == load_test_requests(options.request_json_files, fs)
  IN  [_DC_API_KEY |-> options.dc_api_key,
       _SHARED_TEST_REQUESTS |-> IF loaded.returned THEN loaded.requests ELSE shared,
       exc |-> loaded.exc]

\* test_start(environment): the two globals after it, shared being the list
\* before it, and the exception that left it.
test_start(shared, options, fs) ==
  LET loaded == load_test_requests(options.request_json_files, fs)
  IN  [_DC_API_KEY |-> options.dc_api_key,
       _SHARED_TEST_REQUESTS |-> IF loaded.returned THEN loaded.requests ELSE <<>>,
       exc |-> loaded.exc]

----------------------------------------------------------------------------
(* dc_api_latency_test.py: the benchmark users.                            *)

UserClasses == {"BenchmarkV2", "BenchmarkV3SkipCache", "BenchmarkV3WithCache"}

api_version(cls) == IF cls = "BenchmarkV2" THEN "v2" ELSE "v3"

\* Lines 48-68: the POST of one request, or the KeyError of a missing key.
send_request(key, version, request, skip_cache, request_name) ==
  IF {"test_name", "json_payload"} \ request.has # {} THEN
    Raise(Exception("KeyError", {"test_name", "json_payload"} \ request.has, {}, {}))
  ELSE
    Return(<< [method |-> "POST",
               url |-> <<"/", version, request.path>>,
               json |-> request.json_payload,
               headers |-> Dict({<<"X-API-Key", key>>}
                                \cup IF skip_cache THEN {<<"X-Skip-Cache", "true">>}
                                     ELSE {}),
               name |-> IF request_name = <<>>
                        THEN <<request.test_name, version>> ELSE request_name] >>)

\* execute_specific_request of the three user classes.
execute_specific_request(cls, key, request) ==
  CASE cls = "BenchmarkV2" ->
         send_request(key, "v2", request, TRUE, <<>>)
    [] cls = "BenchmarkV3SkipCache" ->
         send_request(key, "v3", request, TRUE, <<request.test_name, "v3", "skip_cache">>)
    [] cls = "BenchmarkV3WithCache" ->
         send_request(key, "v3", request, FALSE, <<request.test_name, "v3", "with_cache">>)

\* Lines 132-136: the loop of run_latency_tests over the requests left, so_far
\* being the requests sent so far; an exception ends the task.
RECURSIVE latency_loop(_, _, _, _)
latency_loop(cls, key, requests, so_far) ==
  IF requests = <<>> THEN Return(so_far)
  ELSE LET request == Head(requests)
           wanted == \/ "api_versions" \notin request.has
                     \/ request.api_versions = <<>>
                     \/ \E k \in DOMAIN request.api_versions :
                          request.api_versions[k] = api_version(cls)
           one == execute_specific_request(cls, key, request)
       IN  IF ~wanted THEN latency_loop(cls, key, Tail(requests), so_far)
           ELSE IF ~one.returned THEN
             [returned |-> FALSE, requests |-> so_far, exc |-> one.exc]
           ELSE latency_loop(cls, key, Tail(requests), so_far \o one.requests)

\* One execution of the task run_latency_tests by a user: the requests it
\* sent, whether it logged the warning, and the exception that ended it.
run_latency_tests(user, key) ==
  IF user.test_requests = <<>>
  THEN [ran |-> TRUE, sent |-> <<>>, warned |-> TRUE, exc |-> NoException]
  ELSE LET done == latency_loop(user.cls, key, user.test_requests, <<>>)
       IN  [ran |-> TRUE, sent |-> done.requests, warned |-> FALSE,
            exc |-> done.exc]

\* A user that has not run its task yet.
NotRun == [ran |-> FALSE, sent |-> <<>>, warned |-> FALSE, exc |-> NoException]

----------------------------------------------------------------------------
(* dc_api_latency_test.py: test runs.                                      *)

ComparatorNotStarted ==
  /\ pc = "start"
  /\ i = 1
  /\ j = 1
  /\ ENDPOINTS = SrcEndpoints
  /\ ERROR_TESTS = SrcErrorTests
  /\ compared = <<>>
  /\ trace = <<>>
  /\ current_response = Unsent
  /\ new_response = Unsent
  /\ sent = <<>>
  /\ json_calls = <<>>
  /\ lines = <<>>
  /\ exc = "none"

\* The module is loaded (lines 17-18); no test has started.
InitBenchmark ==
  /\ BenchmarkNotStarted
  /\ ComparatorNotStarted /\ DagNotStarted /\ TriggerNotStarted

\* A test starts: Locust fires test_start, with the request files as they
\* are now (they can be edited between runs).  Locust logs an exception of
\* the listener and goes on to spawn the users (lines 106-107).
TestStart ==
  /\ ~running
  /\ starts < MaxStarts
  /\ \E fs \in FileSystems, request_json_files \in RequestJsonFiles :
     \E options \in {[dc_api_key |-> "DC_API_KEY",
                      request_json_files |-> request_json_files]} :
     \E after \in {test_start(_SHARED_TEST_REQUESTS, options, fs)} :
       /\ files' = fs
       /\ parsed_options' = options
       /\ _DC_API_KEY' = after._DC_API_KEY
       /\ _SHARED_TEST_REQUESTS' = after._SHARED_TEST_REQUESTS
       /\ test_start_exc' = after.exc
  /\ running' = TRUE
  /\ users' = <<>>
  /\ rest_calls' = <<>>
  /\ starts' = starts + 1
  /\ UNCHANGED <<comparatorVars, dagVars, triggerVars>>

\* Locust spawns a user of class cls: on_start (lines 126-127).
SpawnUser(cls) ==
  /\ running
  /\ Len(users) < MaxUsers
  /\ users' = Append(users, [cls |-> cls,
                             test_requests |-> _SHARED_TEST_REQUESTS,
                             last |-> NotRun])
  /\ UNCHANGED <<files, parsed_options, _DC_API_KEY, _SHARED_TEST_REQUESTS,
                 test_start_exc, running, rest_calls, starts>>
  /\ UNCHANGED <<comparatorVars, dagVars, triggerVars>>

\* User u executes its task run_latency_tests once.
RunLatencyTests(u) ==
  /\ running
  /\ u \in DOMAIN users
  /\ \E done \in {run_latency_tests(users[u], _DC_API_KEY)} :
       /\ Len(rest_calls) + Len(done.sent) <= MaxRestCalls
       /\ rest_calls' = rest_calls \o done.sent
       /\ users' = [users EXCEPT ![u].last = done]
  /\ UNCHANGED <<files, parsed_options, _DC_API_KEY, _SHARED_TEST_REQUESTS,
                 test_start_exc, running, starts>>
  /\ UNCHANGED <<comparatorVars, dagVars, triggerVars>>

\* The test run is stopped: its users are gone.
TestStop ==
  /\ running
  /\ running' = FALSE
  /\ users' = <<>>
  /\ rest_calls' = <<>>
  /\ UNCHANGED <<files, parsed_options, _DC_API_KEY, _SHARED_TEST_REQUESTS,
                 test_start_exc, starts>>
  /\ UNCHANGED <<comparatorVars, dagVars, triggerVars>>

NextBenchmark ==
  \/ TestStart
  \/ \E cls \in UserClasses : SpawnUser(cls)
  \/ \E u \in 1..MaxUsers : RunLatencyTests(u)
  \/ TestStop

SpecBenchmark == InitBenchmark /\ [][NextBenchmark]_vars

----------------------------------------------------------------------------
(* The request files of the last test start.                               *)

\* The file names of --request_json_files, in order.
Configured == split(parsed_options.request_json_files, <<>>, <<>>)

\* The fields 'test_name' and 'path' that entry e lacks.
Lacking(e) == {"test_name", "path"} \ e.has

IsFile(path) == path \in Paths /\ files[path].exists

Decodes(path) == IsFile(path) /\ files[path].decodable

\* The file holds an entry without 'test_name' or without 'path'.
Malformed(path) ==
  /\ Decodes(path)
  /\ \E k \in DOMAIN files[path].data : Lacking(files[path].data[k]) # {}

\* The file exists, is JSON, and every entry has both fields.
Loads(path) == Decodes(path) /\ ~Malformed(path)

\* The fields lacked by the entries of the file.
LackedIn(path) == UNION {Lacking(files[path].data[k]) : k \in DOMAIN files[path].data}

\* No request was sent in the test run: none is logged, and every user has
\* an empty list and sent nothing in its task.
NothingSent ==
  /\ rest_calls = <<>>
  /\ \A u \in DOMAIN users :
       users[u].test_requests = <<>> /\ users[u].last.sent = <<>>

----------------------------------------------------------------------------
\* The places in --request_json_files of files that do not load.
Failing == {k \in DOMAIN Configured : ~Loads(Configured[k])}

\* The file the load stopped at: the first one that does not load.
Offending == Configured[CHOOSE k \in Failing : \A h \in Failing : k <= h]

(* C14: every failure of load_test_requests caused by a request file (not  *)
(* found, not JSON, an entry without a required field) is raised before    *)
(* any request is sent and carries the path of the offending file in its   *)
(* message or in a note added to it.                                       *)
C14_LoadFailureCarriesFilePath ==
  (starts > 0 /\ parsed_options.request_json_files # <<>> /\ Failing # {})
  => /\ test_start_exc.type \in {"FileNotFoundError", "JSONDecodeError", "ValueError"}
     /\ Offending \in test_start_exc.message \cup test_start_exc.notes
     /\ NothingSent

----------------------------------------------------------------------------
\* The entries of the configured files from place k on, file after file.
RECURSIVE EntriesFrom(_)
EntriesFrom(k) ==
  IF k > Len(Configured) THEN <<>>
  ELSE files[Configured[k]].data \o EntriesFrom(k + 1)

\* The last load succeeded: files were named and each of them loads.
LoadSucceeded ==
  /\ parsed_options.request_json_files # <<>>
  /\ Failing = {}

(* C20: after any sequence of test starts the shared request list holds    *)
(* exactly the entries of the files named by the most recent test start,   *)
(* in file order then entry order, when that load succeeded, and is empty  *)
(* when it failed; the users of the run work on that list.  Nothing of an  *)
(* earlier test run is kept.                                               *)
C20_SharedListIsLastLoad ==
  starts > 0
  => /\ _SHARED_TEST_REQUESTS = IF LoadSucceeded THEN EntriesFrom(1) ELSE <<>>
     /\ LoadSucceeded <=> test_start_exc = NoException
     /\ \A u \in DOMAIN users : users[u].test_requests = _SHARED_TEST_REQUESTS

\* A second test start has loaded two files with different entries, and a
\* user of that run holds the four entries in file order.
C20_Witness ==
  /\ starts = 2
  /\ LoadSucceeded
  /\ Len(Configured) = 2
  /\ Len(_SHARED_TEST_REQUESTS) = 4
  /\ _SHARED_TEST_REQUESTS[1] = files[Configured[1]].data[1]
  /\ _SHARED_TEST_REQUESTS[3] = files[Configured[2]].data[1]
  /\ _SHARED_TEST_REQUESTS[1] # _SHARED_TEST_REQUESTS[3]
  /\ users # <<>>

----------------------------------------------------------------------------
(* dag.py: the DAG GcsToBTCache.                                           *)

SUCCESS_TAG == "success.txt"

FAILURE_TAG == "failure.txt"

\* The three tasks, by task_id.
TaskIds == {"csv_to_bt", "success-move-to-completion", "failure-move-to-completion"}

StatusTasks == {"success-move-to-completion", "failure-move-to-completion"}

\* trigger_rule with ALL_DONE for the failure task.
trigger_rule_all_done(task_id) ==
  IF task_id = "failure-move-to-completion" THEN "all_done" ELSE "all_success"

\* The trigger rule each operator is built with (all_success by default).
trigger_rule(task_id) ==
  IF task_id = "failure-move-to-completion" THEN "all_failed" ELSE "all_success"

\* Lines 104-105: the tasks directly upstream.
upstream(task_id) == IF task_id \in StatusTasks THEN {"csv_to_bt"} ELSE {}

\* op_args of the two PythonOperators: <<src, dst>>.
op_args(task_id) ==
  IF task_id = "success-move-to-completion" THEN <<SUCCESS_TAG, FAILURE_TAG>>
  ELSE <<FAILURE_TAG, SUCCESS_TAG>>

\* States in which a task instance is finished.
Finished == {"success", "failed", "upstream_failed", "skipped"}

\* What Airflow does with a task instance under a trigger rule, given the
\* states of its upstream tasks: "wait", "run", or the state it is given
\* without running.
decide(rule, states) ==
  IF \E s \in states : s \notin Finished THEN "wait"
  ELSE CASE rule = "all_success" ->
              IF states \subseteq {"success"} THEN "run" ELSE "upstream_failed"
         [] rule = "all_failed" ->
              IF states \subseteq {"failed", "upstream_failed"} THEN "run"
              ELSE "skipped"
         [] rule = "all_done" -> "run"

\* update_on_completion that copies the object src onto the object dst.
update_on_completion_src_onto_dst(src, dst, b) ==
  IF b[src] = "absent"
  THEN [bucket |-> b, state |-> "failed", copy |-> <<>>]
  ELSE [bucket |-> [b EXCEPT ![dst] = b[src]], state |-> "success",
        copy |-> <<src, dst>>]

\* update_on_completion(src, dst) on the bucket b: conn.copy(bucket, dst,
\* bucket, src) copies the object dst onto the object src, and raises when
\* there is no object dst.
update_on_completion(src, dst, b) ==
  IF b[dst] = "absent"
  THEN [bucket |-> b, state |-> "failed", copy |-> <<>>]
  ELSE [bucket |-> [b EXCEPT ![src] = b[dst]], state |-> "success",
        copy |-> <<dst, src>>]

\* Lines 77-82: the parameters of the Dataflow job, from dag_run.conf.
job_args(conf) ==
  [bigtableTableId |-> conf.bigtable_id, inputFile |-> conf.input_file]

\* The conf of the runs explored.
DagConfs ==
  {[bigtable_id |-> "table_1", input_file |-> "gs://cache/table_1/data.csv"],
   [bigtable_id |-> "table_2", input_file |-> "gs://cache/table_2/data.csv"]}

\* A run as the trigger creates it: no task has a state, no copy was made.
DagRun(conf) ==
  [conf |-> conf, parameters |-> job_args(conf),
   state |-> [t \in TaskIds |-> "none"], copy |-> <<>>]

\* The states of the tasks upstream of task_id in run r.
UpstreamStates(r, task_id) == {dag_runs[r].state[u] : u \in upstream(task_id)}

\* The DAG is parsed; the completion bucket holds each marker or not.
InitDag ==
  /\ dag_runs = <<>>
  /\ bucket \in {b \in [{SUCCESS_TAG, FAILURE_TAG} ->
                              {"absent", "success marker", "failure marker"}] :
                    /\ b[SUCCESS_TAG] # "failure marker"
                    /\ b[FAILURE_TAG] # "success marker"}
  /\ ComparatorNotStarted /\ BenchmarkNotStarted /\ TriggerNotStarted

\* A run is triggered from outside (schedule_interval is None).
TriggerDagRun(conf) ==
  /\ Len(dag_runs) < MaxDagRuns
  /\ dag_runs' = Append(dag_runs, DagRun(conf))
  /\ UNCHANGED bucket
  /\ UNCHANGED <<comparatorVars, benchmarkVars, triggerVars>>

\* csv_to_bt starts: it has no upstream task.
DataflowStart(r) ==
  /\ r \in DOMAIN dag_runs
  /\ dag_runs[r].state["csv_to_bt"] = "none"
  /\ decide(trigger_rule("csv_to_bt"), UpstreamStates(r, "csv_to_bt")) = "run"
  /\ dag_runs' = [dag_runs EXCEPT ![r].state["csv_to_bt"] = "running"]
  /\ UNCHANGED bucket
  /\ UNCHANGED <<comparatorVars, benchmarkVars, triggerVars>>

\* The Dataflow job ends, well or not; there is no retry (retries is 0).
DataflowEnd(r) ==
  /\ r \in DOMAIN dag_runs
  /\ dag_runs[r].state["csv_to_bt"] = "running"
  /\ \E s \in {"success", "failed"} :
       dag_runs' = [dag_runs EXCEPT ![r].state["csv_to_bt"] = s]
  /\ UNCHANGED bucket
  /\ UNCHANGED <<comparatorVars, benchmarkVars, triggerVars>>

\* Airflow handles a status task of run r: it runs update_on_completion
\* with the op_args of the task, or gives the task its state without
\* running it, as the trigger rule says.
StatusTask(r, task_id) ==
  /\ r \in DOMAIN dag_runs
  /\ dag_runs[r].state[task_id] = "none"
  /\ \E d \in {decide(trigger_rule(task_id), UpstreamStates(r, task_id))} :
       /\ d # "wait"
       /\ IF d = "run"
          THEN \E done \in {update_on_completion(op_args(task_id)[1],
                                                 op_args(task_id)[2], bucket)} :
                 /\ bucket' = done.bucket
                 /\ dag_runs' = [dag_runs EXCEPT ![r].state[task_id] = done.state,
                                                 ![r].copy = done.copy]
          ELSE /\ dag_runs' = [dag_runs EXCEPT ![r].state[task_id] = d]
               /\ UNCHANGED bucket
  /\ UNCHANGED <<comparatorVars, benchmarkVars, triggerVars>>

\* A step of the Airflow scheduler and its workers.
SchedulerStep ==
  \E r \in 1..MaxDagRuns :
    \/ DataflowStart(r)
    \/ DataflowEnd(r)
    \/ \E task_id \in StatusTasks : StatusTask(r, task_id)

NextDag ==
  \/ \E conf \in DagConfs : TriggerDagRun(conf)
  \/ SchedulerStep

\* The scheduler does not leave a task that can be handled waiting for ever.
SpecDag == InitDag /\ [][NextDag]_vars /\ WF_vars(SchedulerStep)

----------------------------------------------------------------------------
\* The status task has run its callable in run r (well or not).
Ran(r, task_id) == dag_runs[r].state[task_id] \in {"success", "failed"}

\* csv_to_bt of run r has completed.
Completed(r) == dag_runs[r].state["csv_to_bt"] \in {"success", "failed"}

\* The status tasks that have run in run r.
StatusTasksRun(r) == {t \in StatusTasks : Ran(r, t)}

\* The status task that belongs to the outcome of csv_to_bt in run r.
StatusTaskOf(r) ==
  IF dag_runs[r].state["csv_to_bt"] = "success"
  THEN "success-move-to-completion" ELSE "failure-move-to-completion"

(* C17: in every run of GcsToBTCache a status task runs, and a status      *)
(* marker is copied, only after csv_to_bt has completed; the only status   *)
(* task that runs is success-move-to-completion when csv_to_bt succeeded   *)
(* and failure-move-to-completion when it failed, never both; and every    *)
(* run comes to the point where exactly that one has run and the other     *)
(* has been given its state without running.                               *)
C17_ExactlyOneStatusTask ==
  /\ [](\A r \in DOMAIN dag_runs :
          /\ (StatusTasksRun(r) # {} \/ dag_runs[r].copy # <<>>) => Completed(r)
          /\ StatusTasksRun(r) \subseteq {StatusTaskOf(r)})
  /\ \A r \in 1..MaxDagRuns :
       (r \in DOMAIN dag_runs)
         ~> (/\ r \in DOMAIN dag_runs
             /\ Completed(r)
             /\ StatusTasksRun(r) = {StatusTaskOf(r)}
             /\ \A t \in StatusTasks : dag_runs[r].state[t] \in Finished)

\* Two runs are over: in one csv_to_bt failed and only the failure task
\* ran, in the other it succeeded and only the success task ran.
C17_Witness ==
  \E r, q \in DOMAIN dag_runs :
    /\ dag_runs[r].state["csv_to_bt"] = "failed"
    /\ dag_runs[r].state["failure-move-to-completion"] = "success"
    /\ dag_runs[r].state["success-move-to-completion"] = "upstream_failed"
    /\ dag_runs[r].copy = <<SUCCESS_TAG, FAILURE_TAG>>
    /\ dag_runs[q].state["csv_to_bt"] = "success"
    /\ dag_runs[q].state["success-move-to-completion"] \in {"success", "failed"}
    /\ dag_runs[q].state["failure-move-to-completion"] = "skipped"

----------------------------------------------------------------------------
(* airflow_trigger.py: make_iap_request.                                   *)

\* An exception of this module: its type, the words of its message that
\* tell it apart, and the status code the message holds (0: none).
Error(type, text, status) == [type |-> type, text |-> text, status |-> status]

NoError == Error("", "", 0)

\* What a call did: the objects it read, the HTTP requests it issued, the
\* value it returned (<<>>: None or nothing) and the exception that left it.
Done(objects, requests, value, e) ==
  [reads |-> objects, http |-> requests, returned |-> value, exc |-> e]

\* Keyword arguments: the names passed, and the value of each.
Kwargs(names, timeout, body) == [names |-> names, timeout |-> timeout, json |-> body]

\* make_iap_request that raises for the status codes from 400 on only.
make_iap_request_from_400(url, client_id, method, kwargs, credentials, resp) ==
  LET request == [method |-> method, url |-> url,
                  headers |-> <<"Authorization", "Bearer", client_id, credentials>>,
                  timeout |-> IF "timeout" \in kwargs.names THEN kwargs.timeout ELSE 90,
                  json |-> IF "json" \in kwargs.names THEN <<kwargs.json>> ELSE <<>>]
  IN  IF ~resp.ok THEN
        Done(<<>>, <<request>>, <<>>, Error("RequestException", "", 0))
      ELSE IF resp.status_code = 403 THEN
        Done(<<>>, <<request>>, <<>>, Error("Exception", "does not have permission", 0))
      ELSE IF resp.status_code >= 400 THEN
        Done(<<>>, <<request>>, <<>>,
             Error("Exception", "Bad response from application", resp.status_code))
      ELSE Done(<<>>, <<request>>, <<resp.content>>, NoError)

\* make_iap_request(url, client_id, method, **kwargs) when the bootstrap
\* credentials are of the kind given and requests.request ends as resp
\* (ok = FALSE: it raised a RequestException).  The token is issued for
\* the audience client_id, signed as the kind of credentials requires.
make_iap_request(url, client_id, method, kwargs, credentials, resp) ==
  LET request == [method |-> method, url |-> url,
                  headers |-> <<"Authorization", "Bearer", client_id, credentials>>,
                  timeout |-> IF "timeout" \in kwargs.names THEN kwargs.timeout ELSE 90,
                  json |-> IF "json" \in kwargs.names THEN <<kwargs.json>> ELSE <<>>]
  IN  IF ~resp.ok THEN
        Done(<<>>, <<request>>, <<>>, Error("RequestException", "", 0))
      ELSE IF resp.status_code = 403 THEN
        Done(<<>>, <<request>>, <<>>, Error("Exception", "does not have permission", 0))
      ELSE IF resp.status_code # 200 THEN
        Done(<<>>, <<request>>, <<>>,
             Error("Exception", "Bad response from application", resp.status_code))
      ELSE Done(<<>>, <<request>>, <<resp.content>>, NoError)

\* The answers of the IAP-protected application.
IapResponses ==
  {Response(c, "text/html", b) :
     c \in {200, 201, 302, 403, 404, 500}, b \in {BodyHtml, BodyNone}}
  \cup {RequestFailed}

\* The calls of make_iap_request explored.
IapCalls ==
  [fn : {"make_iap_request"},
   url : {"https://iap.example/page"},
   client_id : {"client-id.apps.googleusercontent.com"},
   method : {"GET", "POST"},
   kwargs : {Kwargs({}, 0, None), Kwargs({"timeout"}, 5, None),
             Kwargs({"timeout"}, 90, None), Kwargs({"timeout"}, 120, None),
             Kwargs({"json"}, 0, Dict({<<"conf", "run">>})),
             Kwargs({"json", "timeout"}, 30, Dict({<<"conf", "run">>}))},
   credentials : {"compute_engine", "service_account"},
   resp : IapResponses]

\* A script is about to call make_iap_request.
InitIap ==
  /\ args \in IapCalls
  /\ reads = <<>>
  /\ http = <<>>
  /\ returned = <<>>
  /\ call_exc = NoError
  /\ handled = 0
  /\ ComparatorNotStarted /\ BenchmarkNotStarted /\ DagNotStarted

\* The call of make_iap_request.
MakeIapRequest ==
  /\ handled = 0
  /\ args.fn = "make_iap_request"
  /\ \E done \in {make_iap_request(args.url, args.client_id, args.method,
                                   args.kwargs, args.credentials, args.resp)} :
       /\ reads' = done.reads
       /\ http' = done.http
       /\ returned' = done.returned
       /\ call_exc' = done.exc
  /\ handled' = 1
  /\ UNCHANGED args
  /\ UNCHANGED <<comparatorVars, benchmarkVars, dagVars>>

SpecIap == InitIap /\ [][MakeIapRequest]_vars

----------------------------------------------------------------------------
\* make_iap_request has been called and has ended.
IapCalled == handled > 0 /\ args.fn = "make_iap_request"

(* C19: make_iap_request sends one request, with the timeout 90 when the   *)
(* caller passed no timeout and with the caller's timeout otherwise; when  *)
(* the application answers, it returns the page body if and only if the    *)
(* status is 200, raises the exception saying that the service account     *)
(* does not have permission for status 403, and raises the 'Bad response'  *)
(* exception holding the status code for every other status.               *)
C19_IapRequestOutcome ==
  IapCalled
  => /\ Len(http) = 1
     /\ http[1].timeout = IF "timeout" \in args.kwargs.names
                          THEN args.kwargs.timeout ELSE 90
     /\ args.resp.ok
        => /\ (returned # <<>>) <=> (args.resp.status_code = 200)
           /\ (call_exc = NoError) <=> (args.resp.status_code = 200)
           /\ args.resp.status_code = 200 => returned = <<args.resp.content>>
           /\ args.resp.status_code = 403
              => /\ call_exc.type = "Exception"
                 /\ call_exc.text = "does not have permission"
           /\ args.resp.status_code \notin {200, 403}
              => /\ call_exc.type = "Exception"
                 /\ call_exc.text = "Bad response from application"
                 /\ call_exc.status = args.resp.status_code

\* A call without a timeout was answered 201: the request went out with
\* the timeout 90 and the 'Bad response' exception holds 201.
C19_Witness ==
  /\ IapCalled
  /\ "timeout" \notin args.kwargs.names
  /\ args.resp.ok
  /\ args.resp.status_code = 201
  /\ Len(http) = 1
  /\ http[1].timeout = 90
  /\ call_exc.status = 201
  /\ returned = <<>>

----------------------------------------------------------------------------
(* airflow_trigger.py: gcs_trigger and trigger_dag.                        *)

PIPELINE_TRIGGER_FILE == "airflow_trigger.txt"

\* Object names are strings, written as the sequence of their pieces.
ObjectNames ==
  {<<PIPELINE_TRIGGER_FILE>>, <<"table_1/", PIPELINE_TRIGGER_FILE>>,
   <<"not_", PIPELINE_TRIGGER_FILE>>, <<PIPELINE_TRIGGER_FILE, ".bak">>,
   <<"table_1/", "data.csv">>}

\* name.endswith(suffix), the suffix being one piece.
endswith(name, suffix) == name # <<>> /\ name[Len(name)] = suffix

\* The file-landing events: data of gcs_trigger.
Events == [bucket : {"prophet-cache", "other-bucket"}, name : ObjectNames]

\* What the object holds: a path, written piece by piece ("/" separates).
\* download_as_string returns bytes; a client that hands back text (str) is
\* explored as well.  exists = FALSE: get_blob finds no object.
Blobs ==
  {[exists |-> FALSE, type |-> "", text |-> <<>>]}
  \cup [exists : {TRUE}, type : {"bytes", "str"},
        text : {<<"gs:", "/", "/", "cache", "/", "table_1", "/", "data.csv">>,
                <<"data.csv">>}]

\* pathlib.PurePath(text).parent.name: the last but one part of the path,
\* or "" when the path has no directory.
parent_name(text) ==
  LET parts == SelectSeq(text, LAMBDA piece : piece # "/")
  IN  IF Len(parts) < 2 THEN "" ELSE parts[Len(parts) - 1]

\* The names bound at module level (imports, constants, functions): the
\* module has no global named data.
ModuleGlobals ==
  {"google", "Request", "storage", "pathlib", "requests", "IAM_SCOPE",
   "OAUTH_TOKEN_URI", "PROJECT_ID", "DATAFLOW_TMPL", "PIPELINE_TRIGGER_FILE",
   "SUCCESS_FILE", "FAILURE_FILE", "read_contents", "gcs_trigger", "trigger_dag",
   "make_iap_request", "get_google_open_id_connect_token"}

\* trigger_dag(table_id, csv_file): line 74 assigns into data, a name that
\* is neither a parameter, nor a local, nor a global of the module.
trigger_dag(table_id, csv_file, resp) ==
  IF "data" \notin ModuleGlobals THEN
    Done(<<>>, <<>>, <<>>, Error("NameError", "name 'data' is not defined", 0))
  ELSE
    make_iap_request(
      "https://x7fea1724da0f8c91p-tp.appspot.com/api/experimental/dags/GcsToBTCache/dag_runs",
      "386888630136-tjng343n77bnjvhdv240cc6rmr5ej8on.apps.googleusercontent.com",
      "POST",
      Kwargs({"json"}, 0,
             [conf |-> [bigtable_id |-> table_id, input_file |-> csv_file]]),
      "compute_engine", resp)

\* gcs_trigger(data) when the object named by the event is blob and the
\* Airflow web server would answer resp.  get_blob returns None for an
\* object that is not there (AttributeError at line 29), and PurePath
\* takes no bytes (TypeError at line 39).
gcs_trigger(data, blob, resp) ==
  IF ~endswith(data.name, PIPELINE_TRIGGER_FILE) THEN
    Done(<<>>, <<>>, <<>>, NoError)
  ELSE IF ~blob.exists THEN
    Done(<<data>>, <<>>, <<>>, Error("AttributeError", "download_as_string", 0))
  ELSE IF blob.type = "bytes" THEN
    Done(<<data>>, <<>>, <<>>, Error("TypeError", "PurePath", 0))
  ELSE
    [trigger_dag(parent_name(blob.text), blob.text, resp) EXCEPT !.reads = <<data>>]

\* The function is deployed; no event has come.
InitTrigger ==
  /\ TriggerNotStarted
  /\ ComparatorNotStarted /\ BenchmarkNotStarted /\ DagNotStarted

\* A file lands in the bucket and the function handles the event.
GcsTrigger ==
  /\ handled < MaxEvents
  /\ \E data \in Events, blob \in Blobs,
        resp \in {Response(200, "text/html", BodyHtml), Response(500, "text/html", BodyHtml)} :
     \E done \in {gcs_trigger(data, blob, resp)} :
       /\ args' = [fn |-> "gcs_trigger", data |-> data, blob |-> blob, resp |-> resp]
       /\ reads' = done.reads
       /\ http' = done.http
       /\ returned' = done.returned
       /\ call_exc' = done.exc
  /\ handled' = handled + 1
  /\ UNCHANGED <<comparatorVars, benchmarkVars, dagVars>>

SpecTrigger == InitTrigger /\ [][GcsTrigger]_vars

----------------------------------------------------------------------------
\* gcs_trigger has handled an event.
TriggerCalled == handled > 0 /\ args.fn = "gcs_trigger"

\* The DAG-run endpoint of GcsToBTCache.
DagRunsEndpoint ==
  "https://x7fea1724da0f8c91p-tp.appspot.com/api/experimental/dags/GcsToBTCache/dag_runs"

(* C18: for an event whose object name ends with 'airflow_trigger.txt',    *)
(* gcs_trigger reads that object and makes exactly one POST request to     *)
(* the DAG-run endpoint of GcsToBTCache, whose 'conf' holds input_file =   *)
(* the path read and bigtable_id = the name of the last directory of that  *)
(* path; for any other event it reads nothing and makes no request.        *)
C18_TriggerFilePostsOneDagRun ==
  TriggerCalled
  => IF endswith(args.data.name, PIPELINE_TRIGGER_FILE)
     THEN /\ reads = <<args.data>>
          /\ args.blob.exists
             => /\ Len(http) = 1
                /\ http[1].method = "POST"
                /\ http[1].url = DagRunsEndpoint
                /\ http[1].json =
                     << [conf |-> [bigtable_id |-> parent_name(args.blob.text),
                                   input_file |-> args.blob.text]] >>
     ELSE reads = <<>> /\ http = <<>>

----------------------------------------------------------------------------
(* The requests of one task execution.                                     *)

\* The entry e is for the api version: it has no 'api_versions', an empty
\* one, or one that contains the version.
ForVersion(e, version) ==
  \/ "api_versions" \notin e.has
  \/ Len(e.api_versions) = 0
  \/ version \in {e.api_versions[k] : k \in DOMAIN e.api_versions}

\* The entries of the list of user u that are for its api version, in list
\* order.
EntriesFor(u) ==
  SelectSeq(users[u].test_requests,
            LAMBDA e : ForVersion(e, api_version(users[u].cls)))

\* Request k sent by the last task execution of u is the request of entry e.
IsRequestOf(u, k, e) ==
  LET call == users[u].last.sent[k]
  IN  /\ call.method = "POST"
      /\ call.url = <<"/", api_version(users[u].cls), e.path>>
      /\ call.json = <<"payload of", e.test_name>>

\* C21: a user that has executed run_latency_tests has sent, in list order,
\* exactly one request for each entry of its list that is for its api version
\* and none for the other entries; with an empty list it has sent nothing and
\* has logged the warning, which it logs in no other case.
C21_OneRequestPerEntryForVersion ==
  \A u \in DOMAIN users :
    users[u].last.ran =>
      /\ Len(users[u].last.sent) = Len(EntriesFor(u))
      /\ \A k \in DOMAIN users[u].last.sent : IsRequestOf(u, k, EntriesFor(u)[k])
      /\ users[u].last.warned <=> users[u].test_requests = <<>>

----------------------------------------------------------------------------
(* The objects a status task writes.                                       *)

\* The status object of the outcome a status task reports, and the other one.
OwnTag(task_id) ==
  IF task_id = "success-move-to-completion" THEN SUCCESS_TAG ELSE FAILURE_TAG

OtherTag(task_id) ==
  IF task_id = "success-move-to-completion" THEN FAILURE_TAG ELSE SUCCESS_TAG

\* In this step the status task of run r runs update_on_completion.
RunsNow(r, task_id) ==
  /\ r \in DOMAIN dag_runs
  /\ dag_runs[r].state[task_id] = "none"
  /\ dag_runs'[r].state[task_id] \in {"success", "failed"}

(* C22: a status task that runs update_on_completion leaves the status     *)
(* object of the other outcome as it was, whether the copy succeeds or     *)
(* not; when the copy succeeds the object written is the one of its own    *)
(* outcome (success.txt for the success task, failure.txt for the failure  *)
(* task), which then has the content of the other one; when the copy       *)
(* raises nothing is written; and no other step changes the bucket.        *)
C22_WritesOnlyOwnStatusObject ==
  [][/\ \A r \in 1..MaxDagRuns : \A t \in StatusTasks :
          RunsNow(r, t) =>
            /\ bucket'[OtherTag(t)] = bucket[OtherTag(t)]
            /\ dag_runs'[r].state[t] = "success" =>
                 /\ dag_runs'[r].copy[2] = OwnTag(t)
                 /\ dag_runs'[r].copy[1] = OtherTag(t)
                 /\ bucket'[OwnTag(t)] = bucket[OtherTag(t)]
            /\ dag_runs'[r].state[t] = "failed" => bucket' = bucket
     /\ (\A r \in 1..MaxDagRuns : \A t \in StatusTasks : ~RunsNow(r, t))
          => bucket' = bucket
    ]_vars

\* Both status tasks have written: the success task of one run copied
\* failure.txt onto success.txt, and after it the failure task of the other
\* run copied success.txt onto failure.txt, so both objects hold the failure
\* marker the bucket started with.
C22_Witness ==
  /\ \E r \in DOMAIN dag_runs :
       /\ dag_runs[r].state["success-move-to-completion"] = "success"
       /\ dag_runs[r].copy = <<FAILURE_TAG, SUCCESS_TAG>>
  /\ \E r \in DOMAIN dag_runs :
       /\ dag_runs[r].state["failure-move-to-completion"] = "success"
       /\ dag_runs[r].copy = <<SUCCESS_TAG, FAILURE_TAG>>
  /\ bucket[SUCCESS_TAG] = "failure marker"
  /\ bucket[FAILURE_TAG] = "failure marker"

----------------------------------------------------------------------------
(* The descriptors across the passes.                                      *)

\* The names of the items of a dict (none for None).
Keys(d) == {it[1] : it \in d.items}

\* The request carries the API key, as query parameter or as header.
CarriesKey(request) ==
  \/ "key" \in Keys(request.params)
  \/ "x-api-key" \in Keys(request.headers)

\* The calls made before the last one for the same entry of the same list
\* with the API key.
EarlierWithKey ==
  {k \in 1..(Len(compared) - 1) :
     /\ compared[k].use_api_key
     /\ compared[k].endpoint = LastCall.endpoint
     /\ compared[k].method = LastCall.method
     /\ compared[k].pass # "error_tests"}

(* C23: no step of a run changes ENDPOINTS or ERROR_TESTS, so the payload  *)
(* of every entry stays what it was at the start; and the requests of a    *)
(* call made with use_api_key false carry the API key neither as the query *)
(* parameter 'key' nor as the header 'x-api-key', whatever was compared    *)
(* with the key before.                                                    *)
C23_DescriptorsUnchanged ==
  /\ [][ENDPOINTS' = ENDPOINTS /\ ERROR_TESTS' = ERROR_TESTS]_vars
  /\ []((Called /\ ~LastCall.use_api_key)
          => \A k \in DOMAIN sent : ~CarriesKey(sent[k]))

\* A GET with a payload has gone to both domains without the API key, after
\* the same entry was compared by GET with the key in the first pass; the
\* entry still has the payload of the source.
C23_Witness ==
  /\ Called
  /\ pc = "without_key"
  /\ ~LastCall.use_api_key
  /\ LastCall.method = "GET"
  /\ LastCall.params # Dict({})
  /\ EarlierWithKey # {}
  /\ Len(sent) = 2
  /\ sent[1].params = LastCall.params
  /\ sent[2].params = LastCall.params
  /\ ENDPOINTS[LastCall.i].params = SrcEndpoints[LastCall.i].params
  /\ ENDPOINTS[LastCall.i].params = LastCall.params

----------------------------------------------------------------------------
(* Bodies that are not JSON.                                               *)

\* The domains whose body failed JSON parsing in the last call.
Unparseable == {d \in {current_domain, new_domain} : ~json(ResponseOf(d)).ok}

\* The other domain of the comparison.
OtherDomain(d) == IF d = current_domain THEN new_domain ELSE current_domain

====
